---- MODULE Spec2Model ----
(***************************************************************************)
(* Public discovery API of kolibri (kolibri/core/public/api.py): channel   *)
(* listing, channel lookup by identifier and per-channel file checksums.   *)
(*                                                                         *)
(* The content store (ChannelMetadata, ContentNode, File, LocalFile) is    *)
(* read-only for these handlers.  A behaviour is one store, drawn by Init  *)
(* from a bounded family, and one request served against it: the handlers  *)
(* write nothing, so requests are independent of each other.               *)
(*                                                                         *)
(* Strings are sequences of one-character strings.  A queryset is the      *)
(* sequence of rows its SQL produces (table order, one row per join        *)
(* match), so that distinct() is an operation that can matter.             *)
(***************************************************************************)
EXTENDS Integers, Sequences, FiniteSets, TLC

VARIABLES channels, nodes, files, localfiles, request, response

(* The content store: ChannelMetadata, ContentNode, File and LocalFile      *)
(* rows.  No handler writes it.                                            *)
store == <<channels, nodes, files, localfiles>>

vars == <<store, request, response>>

-----------------------------------------------------------------------------
(* Bounds of the model *)

NumChannels == 2
NumFiles == 2
MaxKeywordLen == 1
MaxLanguageLen == 1
MaxIdentifierLen == 3

NumNodes == NumChannels + 1
NumLocalFiles == NumFiles

-----------------------------------------------------------------------------
(* Strings *)

Whitespace == {" "}

Range(s) == {s[i] : i \in 1..Len(s)}

Idx(n) == [i \in 1..n |-> i]

Strs(chars, n) == UNION {[1..k -> chars] : k \in 0..n}

lower(c) ==
    CASE c = "A" -> "a"
      [] c = "M" -> "m"
      [] c = "S" -> "s"
      [] c = "E" -> "e"
      [] OTHER -> c

casefold(s) == [i \in 1..Len(s) |-> lower(s[i])]

RECURSIVE lstrip(_)
lstrip(s) ==
    IF s # <<>> /\ Head(s) \in Whitespace THEN lstrip(Tail(s)) ELSE s

RECURSIVE rstrip(_)
rstrip(s) ==
    IF s # <<>> /\ s[Len(s)] \in Whitespace
    THEN rstrip(SubSeq(s, 1, Len(s) - 1))
    ELSE s

strip(s) == rstrip(lstrip(s))

replace_hyphen(s) == SelectSeq(s, LAMBDA c : c # "-")

contains_exact(hay, needle) ==
    \E i \in 0..(Len(hay) - Len(needle)) :
        SubSeq(hay, i + 1, i + Len(needle)) = needle

icontains(hay, needle) ==
    \E i \in 0..(Len(hay) - Len(needle)) :
        SubSeq(casefold(hay), i + 1, i + Len(needle)) = casefold(needle)

(* lang__id__icontains over a nullable foreign key: lang is the empty set  *)
(* (NULL) or a singleton holding the language id.                          *)
lang_icontains(lang, language_id) == \E t \in lang : icontains(t, language_id)

distinct_identity(rows) == rows

RECURSIVE distinct(_)
distinct(rows) ==
    IF rows = <<>> THEN <<>>
    ELSE LET init == distinct(SubSeq(rows, 1, Len(rows) - 1))
             last == rows[Len(rows)]
         IN  IF last \in Range(init) THEN init ELSE Append(init, last)

-----------------------------------------------------------------------------
(* Requests and responses *)

NOT_FOUND == "NOT_FOUND"

NoRequest ==
    [op |-> "none", version |-> "", keyword |-> <<>>, language |-> <<>>,
     identifier |-> <<>>]
NoResponse == [status |-> 0, id |-> "", data |-> <<>>]

HttpResponse(data) == [status |-> 200, id |-> "", data |-> data]
HttpResponseNotFound == [status |-> 404, id |-> NOT_FOUND, data |-> <<>>]

Versions == {"v1", "v2"}
KeywordChars == {"A", " "}
LanguageChars == {"S", " "}
IdentifierChars == {"a", "-", " "}

(* Query parameters; an absent parameter is the empty string, the default *)
(* of params.get.  One padded value of each is always among the inputs.    *)
Keywords == Strs(KeywordChars, MaxKeywordLen) \cup {<<" ", "A", " ">>}
Languages == Strs(LanguageChars, MaxLanguageLen) \cup {<<" ", "S", " ">>}
Identifiers == Strs(IdentifierChars, MaxIdentifierLen) \ {<<>>}

(* identifier=None of _get_channel_list *)
None == [none |-> TRUE, str |-> <<>>]
Some(s) == [none |-> FALSE, str |-> s]
truthy(identifier) == ~identifier.none /\ identifier.str # <<>>

(* channel_id path segments tried on the checksum endpoint: the stored     *)
(* ids, one id no channel has, and a hyphenated spelling.                  *)
ChannelIdInputs ==
    {[j \in 1..c |-> "a"] : c \in 1..(NumChannels + 1)} \cup {<<"a", "-">>}

-----------------------------------------------------------------------------
(* Store: tables are sequences of rows, a primary key of ContentNode, File *)
(* is the row's index.  Channel c is rooted in node c, whose tree is c.    *)

ChannelPk(c) == [j \in 1..c |-> "a"]

root(c) == nodes[channels[c].root]

(* ChannelMetadata.objects.all() *)
all_channels == Idx(NumChannels)

(* ChannelMetadata.objects.filter(pk=identifier) *)
filter_pk(identifier) ==
    SelectSeq(Idx(NumChannels), LAMBDA c : channels[c].id = identifier)

keyword_matches_case_sensitive(c, keyword) ==
    \/ contains_exact(channels[c].name, keyword)
    \/ contains_exact(channels[c].description, keyword)

(* Q(name__icontains=keyword) | Q(description__icontains=keyword) *)
keyword_matches(c, keyword) ==
    \/ icontains(channels[c].name, keyword)
    \/ icontains(channels[c].description, keyword)

filter_keyword(rows, keyword) ==
    SelectSeq(rows, LAMBDA c : keyword_matches(c, keyword))

(* ContentNode LEFT OUTER JOIN File: one row per file of the node, or one  *)
(* row with no file (file = 0) for a node that has none.                   *)
node_file_rows(n) ==
    LET fs == SelectSeq(Idx(NumFiles), LAMBDA f : files[f].contentnode = n)
    IN  IF fs = <<>>
        THEN <<[node |-> n, file |-> 0]>>
        ELSE [k \in 1..Len(fs) |-> [node |-> n, file |-> fs[k]]]

RECURSIVE node_join_files(_)
node_join_files(n) ==
    IF n = 0 THEN <<>> ELSE node_join_files(n - 1) \o node_file_rows(n)

language_row_matches_node_only(row, language_id) ==
    lang_icontains(nodes[row.node].lang, language_id)

(* Q(lang__id__icontains=language_id) | Q(files__lang__id__icontains=language_id) *)
language_row_matches(row, language_id) ==
    \/ lang_icontains(nodes[row.node].lang, language_id)
    \/ /\ row.file # 0
       /\ lang_icontains(files[row.file].lang, language_id)

matching_tree_ids(language_id) ==
    LET rows == SelectSeq(node_join_files(NumNodes),
                          LAMBDA r : language_row_matches(r, language_id))
    IN  [k \in 1..Len(rows) |-> nodes[rows[k].node].tree_id]

(* Q(root__lang__id__icontains=language_id) | Q(root__tree_id__in=matching_tree_ids) *)
filter_language(rows, language_id) ==
    LET tree_ids == matching_tree_ids(language_id)
    IN  SelectSeq(rows, LAMBDA c :
            \/ lang_icontains(root(c).lang, language_id)
            \/ root(c).tree_id \in Range(tree_ids))

(* filter(root__available=True) *)
filter_available(rows) == SelectSeq(rows, LAMBDA c : root(c).available)

(* The language criterion written as a join on the matching tree ids, one  *)
(* row per match, and no distinct().                                       *)
RECURSIVE join_language(_, _)
join_language(rows, language_id) ==
    IF rows = <<>> THEN <<>>
    ELSE LET c == Head(rows)
             tree_ids == matching_tree_ids(language_id)
             hits == SelectSeq(tree_ids, LAMBDA t : t = root(c).tree_id)
             own == IF lang_icontains(root(c).lang, language_id)
                    THEN <<c>> ELSE <<>>
         IN  own \o [k \in 1..Len(hits) |-> c]
                 \o join_language(Tail(rows), language_id)

_get_channel_list_v1_joined(params, identifier) ==
    LET keyword == strip(params.keyword)
        language_id == strip(params.language)
        c0 == IF truthy(identifier)
              THEN filter_pk(identifier.str) ELSE all_channels
        c1 == IF keyword # <<>> THEN filter_keyword(c0, keyword) ELSE c0
        c2 == IF language_id # <<>> THEN join_language(c1, language_id) ELSE c1
    IN  filter_available(c2)

_get_channel_list_v1(params, identifier) ==
    LET keyword == strip(params.keyword)
        language_id == strip(params.language)
        c0 == IF truthy(identifier)
              THEN filter_pk(identifier.str) ELSE all_channels
        c1 == IF keyword # <<>> THEN filter_keyword(c0, keyword) ELSE c0
        c2 == IF language_id # <<>> THEN filter_language(c1, language_id) ELSE c1
    IN  distinct(filter_available(c2))

(* raised: LookupError *)
_get_channel_list(version, params, identifier) ==
    IF version = "v1"
    THEN [raised |-> FALSE, value |-> _get_channel_list_v1(params, identifier)]
    ELSE [raised |-> TRUE, value |-> <<>>]

(* PublicChannelSerializer(channel_list, many=True).data: one summary per  *)
(* row, identified by the channel's id.                                    *)
PublicChannelSerializer(channel_list) ==
    [k \in 1..Len(channel_list) |-> channels[channel_list[k]].id]

-----------------------------------------------------------------------------
(* Endpoint: /public/<version>/channels/ *)

channel_list_response_not_found_when_empty(version, params) ==
    LET channel_list == _get_channel_list(version, params, None)
    IN  IF channel_list.raised \/ channel_list.value = <<>>
        THEN HttpResponseNotFound
        ELSE HttpResponse(PublicChannelSerializer(channel_list.value))

channel_list_response(version, params) ==
    LET channel_list == _get_channel_list(version, params, None)
    IN  IF channel_list.raised
        THEN HttpResponseNotFound
        ELSE HttpResponse(PublicChannelSerializer(channel_list.value))

get_public_channel_list ==
    /\ request = NoRequest
    /\ \E version \in Versions, keyword \in Keywords, language \in Languages :
          /\ request' = [op |-> "list", version |-> version,
                         keyword |-> keyword, language |-> language,
                         identifier |-> <<>>]
          /\ response' = channel_list_response(
                            version, [keyword |-> keyword, language |-> language])
    /\ UNCHANGED store

-----------------------------------------------------------------------------
(* Endpoint: /public/<version>/channels/lookup/<identifier> *)

normalise_strip_only(identifier) == strip(identifier)

(* identifier.strip().replace("-", "") *)
normalise(identifier) == replace_hyphen(strip(identifier))

channel_lookup_response(version, params, identifier) ==
    LET channel_list ==
            _get_channel_list(version, params, Some(normalise(identifier)))
    IN  IF channel_list.raised
        THEN HttpResponseNotFound
        ELSE IF channel_list.value = <<>>
             THEN HttpResponseNotFound
             ELSE HttpResponse(PublicChannelSerializer(channel_list.value))

get_public_channel_lookup ==
    /\ request = NoRequest
    /\ \E version \in Versions, keyword \in Keywords, language \in Languages,
          identifier \in Identifiers :
          /\ request' = [op |-> "lookup", version |-> version,
                         keyword |-> keyword, language |-> language,
                         identifier |-> identifier]
          /\ response' = channel_lookup_response(
                            version, [keyword |-> keyword, language |-> language],
                            identifier)
    /\ UNCHANGED store

-----------------------------------------------------------------------------
(* Endpoint: /public/<version>/file_checksums/<channel_id> *)

(* ChannelMetadata.objects.get(id=channel_id): the matching rows, none     *)
(* when the lookup raises DoesNotExist.                                    *)
get_channel(channel_id) ==
    SelectSeq(Idx(NumChannels), LAMBDA c : channels[c].id = channel_id)

(* LocalFile INNER JOIN File INNER JOIN ContentNode: one row per File      *)
(* record that references the local file.                                  *)
localfile_file_rows(l) ==
    LET fs == SelectSeq(Idx(NumFiles), LAMBDA f : files[f].local_file = l)
    IN  [k \in 1..Len(fs) |->
            [localfile |-> l, file |-> fs[k], node |-> files[fs[k]].contentnode]]

RECURSIVE localfile_join_files(_)
localfile_join_files(l) ==
    IF l = 0 THEN <<>>
    ELSE localfile_join_files(l - 1) \o localfile_file_rows(l)

checksum_row_matches_available_file(row, tree_id) ==
    /\ localfiles[row.localfile].available
    /\ files[row.file].available
    /\ nodes[row.node].tree_id = tree_id

(* filter(available=True, files__contentnode__tree_id=tree_id) *)
checksum_row_matches(row, tree_id) ==
    /\ localfiles[row.localfile].available
    /\ nodes[row.node].tree_id = tree_id

(* .values_list("id", flat=True).distinct() *)
checksums_of_tree(tree_id) ==
    LET rows == SelectSeq(localfile_join_files(NumLocalFiles),
                          LAMBDA r : checksum_row_matches(r, tree_id))
    IN  distinct([k \in 1..Len(rows) |-> localfiles[rows[k].localfile].id])

file_checksums_response_not_found_when_absent(version, channel_id) ==
    IF version = "v1" /\ get_channel(channel_id) # <<>>
    THEN HttpResponse(checksums_of_tree(root(get_channel(channel_id)[1]).tree_id))
    ELSE HttpResponseNotFound

file_checksums_response(version, channel_id) ==
    IF version = "v1"
    THEN LET found == get_channel(channel_id)
         IN  IF found = <<>>
             THEN HttpResponse(<<>>)
             ELSE HttpResponse(checksums_of_tree(root(found[1]).tree_id))
    ELSE HttpResponseNotFound

get_public_file_checksums ==
    /\ request = NoRequest
    /\ \E version \in Versions, channel_id \in ChannelIdInputs :
          /\ request' = [op |-> "checksums", version |-> version,
                         keyword |-> <<>>, language |-> <<>>,
                         identifier |-> channel_id]
          /\ response' = file_checksums_response(version, channel_id)
    /\ UNCHANGED store

-----------------------------------------------------------------------------
(* Stores.  Each family fixes the columns its handler does not read or     *)
(* that the other family varies.                                           *)

NULL == {}
es == {<<"e", "s">>}
fr == {<<"f", "r">>}

Ma == <<"M", "a">>
ab == <<"a", "b">>

Stores(Names, Descs, RootLangs, FirstRootAvail, OtherRootAvail, NodeTrees, NodeLangs, NodeAvail, FileNodeSet, FileLangs, FileLocals, FileAvail, LocalAvail) ==
    /\ \E nm \in [1..NumChannels -> Names],
          ds \in [1..NumChannels -> Descs] :
          channels = [c \in 1..NumChannels |->
                        [id |-> ChannelPk(c), name |-> nm[c],
                         description |-> ds[c], root |-> c]]
    /\ \E rl \in [1..NumChannels -> RootLangs],
          ra \in [1..NumChannels -> FirstRootAvail \cup OtherRootAvail],
          nt \in [(NumChannels + 1)..NumNodes -> NodeTrees],
          nl \in [(NumChannels + 1)..NumNodes -> NodeLangs],
          na \in [(NumChannels + 1)..NumNodes -> NodeAvail] :
          /\ ra[1] \in FirstRootAvail
          /\ \A c \in 2..NumChannels : ra[c] \in OtherRootAvail
          /\ nodes = [n \in 1..NumNodes |->
                        IF n <= NumChannels
                        THEN [tree_id |-> n, lang |-> rl[n], available |-> ra[n]]
                        ELSE [tree_id |-> nt[n], lang |-> nl[n],
                              available |-> na[n]]]
    /\ files \in [1..NumFiles ->
                    [contentnode : FileNodeSet, lang : FileLangs,
                     local_file : FileLocals, available : FileAvail]]
    /\ \E la \in [1..NumLocalFiles -> LocalAvail] :
          localfiles = [l \in 1..NumLocalFiles |-> [id |-> l, available |-> la[l]]]

(* Files hang on the root of channel 1 or on the last, non-root, node,     *)
(* whose tree ranges over every channel.                                   *)
FileNodes == {1, NumNodes}

Trees == 1..NumChannels

KeywordStores ==
    Stores({Ma, <<"b">>}, {<<>>, ab}, {NULL}, BOOLEAN, BOOLEAN,
           {1}, {NULL}, {TRUE},
           {1}, {NULL}, {1}, {TRUE}, {TRUE})

LanguageStores ==
    Stores({Ma}, {ab}, {NULL, es}, BOOLEAN, {TRUE},
           Trees, {es, fr}, {TRUE},
           FileNodes, {es, fr}, {1}, {TRUE}, {TRUE})

LookupStores ==
    \/ Stores({Ma, <<"b">>}, {<<>>}, {es}, {TRUE}, {TRUE},
              {1}, {NULL}, {TRUE},
              {1}, {NULL}, {1}, {TRUE}, {TRUE})
    \/ Stores({Ma}, {<<>>}, {NULL, es}, {TRUE}, {TRUE},
              {1}, {NULL}, {TRUE},
              {1}, {NULL}, {1}, {TRUE}, {TRUE})
    \/ Stores({Ma}, {<<>>}, {es}, BOOLEAN, BOOLEAN,
              {1}, {NULL}, {TRUE},
              {1}, {NULL}, {1}, {TRUE}, {TRUE})

ChecksumStores ==
    Stores({Ma}, {ab}, {NULL}, BOOLEAN, {TRUE},
           Trees, {NULL}, {TRUE},
           FileNodes, {NULL}, {1, 2}, BOOLEAN, BOOLEAN)

InitList ==
    /\ KeywordStores \/ LanguageStores
    /\ request = NoRequest
    /\ response = NoResponse

InitLookup ==
    /\ LookupStores
    /\ request = NoRequest
    /\ response = NoResponse

InitChecksums ==
    /\ ChecksumStores
    /\ request = NoRequest
    /\ response = NoResponse

SpecList == InitList /\ [][get_public_channel_list]_vars

SpecLookup == InitLookup /\ [][get_public_channel_lookup]_vars

SpecChecksums == InitChecksums /\ [][get_public_file_checksums]_vars

-----------------------------------------------------------------------------
(* Vocabulary of the properties, stated on the store and on the request    *)
(* and response, independently of the operators above.                     *)

AllSpaces(s) == \A k \in 1..Len(s) : s[k] = " "

Trimmed(s) ==
    IF AllSpaces(s) THEN <<>>
    ELSE LET i == CHOOSE i \in 1..Len(s) :
                    s[i] # " " /\ \A k \in 1..(i - 1) : s[k] = " "
             j == CHOOSE j \in 1..Len(s) :
                    s[j] # " " /\ \A k \in (j + 1)..Len(s) : s[k] = " "
         IN  SubSeq(s, i, j)

RECURSIVE Dehyphenated(_)
Dehyphenated(s) ==
    IF s = <<>> THEN <<>>
    ELSE IF s[1] = "-" THEN Dehyphenated(Tail(s))
         ELSE <<s[1]>> \o Dehyphenated(Tail(s))

SameLetter(x, y) ==
    \/ x = y
    \/ {x, y} \in {{"a", "A"}, {"m", "M"}, {"s", "S"}, {"e", "E"}}

Occurs(needle, hay) ==
    \E off \in 0..(Len(hay) - Len(needle)) :
        \A k \in 1..Len(needle) : SameLetter(hay[off + k], needle[k])

LangOccurs(L, lang) == \E t \in lang : Occurs(L, t)

RootOf(c) == nodes[channels[c].root]

RootAvailable(c) == RootOf(c).available

InTree(n, c) == nodes[n].tree_id = RootOf(c).tree_id

Times(x) == Cardinality({k \in 1..Len(response.data) : response.data[k] = x})

Listed(c) == Times(channels[c].id) >= 1

KeywordCriterion(c) ==
    LET k == Trimmed(request.keyword)
    IN  \/ k = <<>>
        \/ Occurs(k, channels[c].name)
        \/ Occurs(k, channels[c].description)

NodeMatches(n, L) == LangOccurs(L, nodes[n].lang)

FileMatches(n, L) ==
    \E f \in 1..NumFiles : files[f].contentnode = n /\ LangOccurs(L, files[f].lang)

LanguageCriterion(c) ==
    LET L == Trimmed(request.language)
    IN  \/ L = <<>>
        \/ LangOccurs(L, RootOf(c).lang)
        \/ \E n \in 1..NumNodes :
              InTree(n, c) /\ (NodeMatches(n, L) \/ FileMatches(n, L))

Remaining(pk) ==
    {c \in 1..NumChannels :
        /\ channels[c].id = pk
        /\ KeywordCriterion(c)
        /\ LanguageCriterion(c)
        /\ RootAvailable(c)}

(* s spells id: id with hyphens inserted anywhere, then whitespace added   *)
(* before and after.                                                       *)
SpelledFrom(s, id) ==
    \E i \in 1..(Len(s) + 1), j \in 0..Len(s) :
        /\ i <= j + 1
        /\ \A k \in 1..(i - 1) : s[k] = " "
        /\ \A k \in (j + 1)..Len(s) : s[k] = " "
        /\ \A k \in i..j : s[k] # " "
        /\ Dehyphenated(SubSeq(s, i, j)) = id

Reachable(l, c) ==
    \E f \in 1..NumFiles :
        files[f].local_file = l /\ InTree(files[f].contentnode, c)

-----------------------------------------------------------------------------
(* Listing *)

(* C2: for version "v1" with no language parameter, a channel is in the   *)
(* listing iff its root node is available and the trimmed keyword is empty *)
(* or occurs, ignoring case, in its name or in its description.            *)
C2_KeywordListing ==
    (request.op = "list" /\ request.version = "v1" /\ request.language = <<>>)
    => /\ response.status = 200
       /\ \A c \in 1..NumChannels :
             Listed(c) <=> (RootAvailable(c) /\ KeywordCriterion(c))

C2_Witness ==
    /\ request.op = "list" /\ request.version = "v1"
    /\ request.language = <<>>
    /\ Trimmed(request.keyword) # <<>>
    /\ Trimmed(request.keyword) # request.keyword
    /\ \E c, d \in 1..NumChannels :
          /\ Listed(c) /\ ~Occurs(Trimmed(request.keyword), channels[c].description)
          /\ ~Listed(d) /\ RootAvailable(d)

(* C3: for version "v1" and a language parameter that is not empty after  *)
(* trimming, a channel passes the language criterion iff its root's        *)
(* language contains the parameter, or a node of its tree has an own       *)
(* language or a file language containing it; node and file matches are    *)
(* independent alternatives.                                               *)
C3_LanguageCriterion ==
    (request.op = "list" /\ request.version = "v1"
        /\ Trimmed(request.language) # <<>>)
    => \A c \in 1..NumChannels :
          Listed(c) <=>
             /\ RootAvailable(c)
             /\ KeywordCriterion(c)
             /\ \/ LangOccurs(Trimmed(request.language), RootOf(c).lang)
                \/ \E n \in 1..NumNodes :
                      /\ InTree(n, c)
                      /\ \/ NodeMatches(n, Trimmed(request.language))
                         \/ FileMatches(n, Trimmed(request.language))

C3_Witness ==
    /\ request.op = "list" /\ request.version = "v1"
    /\ Trimmed(request.language) # <<>>
    /\ \E c \in 1..NumChannels :
          /\ Listed(c)
          /\ \A n \in 1..NumNodes :
                InTree(n, c) => ~NodeMatches(n, Trimmed(request.language))
          /\ \E n \in 1..NumNodes :
                /\ InTree(n, c)
                /\ nodes[n].lang = fr
                /\ FileMatches(n, Trimmed(request.language))

(* C5: the listing endpoint answers NOT_FOUND iff the version is not "v1"; *)
(* for "v1" it answers success, with the empty array when nothing matches. *)
C5_ListStatus ==
    request.op = "list"
    => /\ response.status = 404 <=> request.version # "v1"
       /\ response.status = 404 => response.id = NOT_FOUND
       /\ request.version = "v1" => response.status = 200

C5_Witness ==
    /\ request.op = "list" /\ request.version = "v1"
    /\ Trimmed(request.keyword) # <<>>
    /\ \E c \in 1..NumChannels : RootAvailable(c)
    /\ response.status = 200
    /\ response.data = <<>>

(* C9: no channel appears twice in the result of _get_channel_list_v1,    *)
(* also when it meets the language criterion along several paths and the   *)
(* keyword in both name and description.                                   *)
C9_NoDuplicates ==
    request.op = "list"
    => \A c \in 1..NumChannels : Times(channels[c].id) <= 1

C9_Witness ==
    /\ request.op = "list" /\ request.version = "v1"
    /\ Trimmed(request.keyword) # <<>>
    /\ Trimmed(request.language) # <<>>
    /\ \E c \in 1..NumChannels :
          /\ Listed(c)
          /\ Occurs(Trimmed(request.keyword), channels[c].name)
          /\ Occurs(Trimmed(request.keyword), channels[c].description)
          /\ LangOccurs(Trimmed(request.language), RootOf(c).lang)
          /\ \E n \in 1..NumNodes :
                /\ n # channels[c].root
                /\ InTree(n, c)
                /\ NodeMatches(n, Trimmed(request.language))
                /\ \E f, g \in 1..NumFiles :
                      /\ f # g
                      /\ files[f].contentnode = n
                      /\ files[g].contentnode = n
                      /\ LangOccurs(Trimmed(request.language), files[f].lang)
                      /\ LangOccurs(Trimmed(request.language), files[g].lang)

-----------------------------------------------------------------------------
(* Lookup *)

(* C1: a successful lookup carries exactly one channel summary, whatever   *)
(* the identifier, also one made only of hyphens and whitespace.           *)
C1_AtMostOneChannel ==
    (request.op = "lookup" /\ response.status = 200)
    => Len(response.data) = 1

(* C4: the lookup endpoint answers NOT_FOUND iff the version is not "v1"   *)
(* or no channel with the normalised identifier as primary key passes the  *)
(* keyword, language and root-availability filters; otherwise it answers   *)
(* success with that channel.                                              *)
C4_LookupNotFoundIff ==
    request.op = "lookup"
    => LET left == Remaining(Dehyphenated(Trimmed(request.identifier)))
       IN  /\ response.status = 404
              <=> (request.version # "v1" \/ left = {})
           /\ response.status # 404
              => /\ response.status = 200
                 /\ {c \in 1..NumChannels : Listed(c)} = left

(* C4 holds for every identifier whose normal form is not empty.           *)
C4_WhenNormalFormNotEmpty ==
    (request.op = "lookup" /\ Dehyphenated(Trimmed(request.identifier)) # <<>>)
    => C4_LookupNotFoundIff

(* C8: an identifier that spells a channel id with hyphens inserted and    *)
(* whitespace around it gets the response of the id itself.                *)
C8_SpellingsResolveAlike ==
    request.op = "lookup"
    => \A c \in 1..NumChannels :
          SpelledFrom(request.identifier, channels[c].id)
          => response = channel_lookup_response(
                           request.version,
                           [keyword |-> request.keyword,
                            language |-> request.language],
                           channels[c].id)

C8_Witness ==
    /\ request.op = "lookup"
    /\ \E c \in 1..NumChannels :
          /\ SpelledFrom(request.identifier, channels[c].id)
          /\ \E k \in 2..(Len(request.identifier) - 1) :
                request.identifier[k] = "-"
          /\ response.status = 200
          /\ response.data = <<channels[c].id>>

-----------------------------------------------------------------------------
(* Checksums *)

(* C6: the checksum endpoint answers NOT_FOUND iff the version is not      *)
(* "v1"; for "v1" it answers success, with the empty array when no channel *)
(* has the given id.                                                       *)
C6_ChecksumStatus ==
    request.op = "checksums"
    => /\ response.status = 404 <=> request.version # "v1"
       /\ response.status = 404 => response.id = NOT_FOUND
       /\ request.version = "v1" => response.status = 200
       /\ (request.version = "v1"
             /\ \A c \in 1..NumChannels : channels[c].id # request.identifier)
          => response.data = <<>>

C6_Witness ==
    /\ request.op = "checksums" /\ request.version = "v1"
    /\ \A c \in 1..NumChannels : channels[c].id # request.identifier
    /\ \E l \in 1..NumLocalFiles, c \in 1..NumChannels :
          localfiles[l].available /\ Reachable(l, c)
    /\ response.status = 200
    /\ response.data = <<>>

(* C7: for "v1" and an existing channel, the result holds the id of a      *)
(* LocalFile exactly once if it is available and a File that references it *)
(* belongs to a node of the channel's tree, and not at all otherwise.      *)
C7_ChecksumContent ==
    (request.op = "checksums" /\ request.version = "v1")
    => \A c \in 1..NumChannels :
          channels[c].id = request.identifier
          => \A l \in 1..NumLocalFiles :
                Times(localfiles[l].id) =
                   IF localfiles[l].available /\ Reachable(l, c) THEN 1 ELSE 0

C7_Witness ==
    /\ request.op = "checksums" /\ request.version = "v1"
    /\ \E c \in 1..NumChannels, l, m \in 1..NumLocalFiles :
          /\ channels[c].id = request.identifier
          /\ Times(localfiles[l].id) = 1
          /\ \E f, g \in 1..NumFiles :
                /\ f # g
                /\ files[f].local_file = l /\ files[g].local_file = l
                /\ files[f].contentnode # files[g].contentnode
                /\ InTree(files[f].contentnode, c)
                /\ InTree(files[g].contentnode, c)
          /\ m # l
          /\ Times(localfiles[m].id) = 0

(* C10: the checksum endpoint ignores availability of the root, of the     *)
(* nodes and of the File records: for a channel whose root is unavailable, *)
(* never listed and not found by lookup, it still answers success with the *)
(* ids of the available LocalFiles reachable in the tree.                  *)
C10_ChecksumsIgnoreAvailability ==
    (request.op = "checksums" /\ request.version = "v1")
    => \A c \in 1..NumChannels :
          (channels[c].id = request.identifier /\ ~RootAvailable(c))
          => /\ response.status = 200
             /\ Range(response.data) =
                   {localfiles[l].id : l \in
                       {l \in 1..NumLocalFiles :
                           localfiles[l].available /\ Reachable(l, c)}}
             /\ \A k \in Keywords, L \in Languages :
                   LET params == [keyword |-> k, language |-> L]
                   IN  /\ c \notin Range(_get_channel_list_v1(params, None))
                       /\ channel_lookup_response("v1", params, channels[c].id)
                             = HttpResponseNotFound

C10_Witness ==
    /\ request.op = "checksums" /\ request.version = "v1"
    /\ \E c \in 1..NumChannels, f \in 1..NumFiles :
          /\ channels[c].id = request.identifier
          /\ ~RootAvailable(c)
          /\ files[f].contentnode = channels[c].root
          /\ ~files[f].available
          /\ localfiles[files[f].local_file].available
          /\ Times(localfiles[files[f].local_file].id) = 1

====
